---- MODULE Spec2Model ----
(***************************************************************************)
(* Model of the asynchronous Mandelbrot rendering pipeline:                *)
(*   SfmlEventHandler -> CalculateMandelbrotAsyncSender -> SFMLRender      *)
(* driven by a repeated frame loop, with MandelbrotRenderer::RenderAsync   *)
(* fanning N region tasks out on a worker pool and joining them.           *)
(*                                                                         *)
(* Spec          the frame loop from a freshly constructed AppState        *)
(* SpecPartition the region partitioner alone, over heights and strip      *)
(*               counts                                                    *)
(* SpecCancel    the frame loop from a gate call whose fan-in has been     *)
(*               asked to stop                                             *)
(* SpecRender    RenderAsync<N> alone, over strip counts, frame sizes and  *)
(*               viewports                                                 *)
(* SpecRegion    ComputePixelMatrixForRegion alone, over regions inside    *)
(*               and beyond the frame                                      *)
(* SpecGate      one call of the render gate under the fairness of the     *)
(*               worker pool, for pools of one and of N workers            *)
(*                                                                         *)
(* Doubles are modelled as exact rationals <<numerator, denominator>>, so  *)
(* every statement about coordinates is a statement about the real-number  *)
(* arithmetic the code performs, without rounding.                         *)
(***************************************************************************)
EXTENDS Integers, Sequences, FiniteSets, TLC

VARIABLES
    viewport,            \* AppState::viewport
    need_rerender,       \* AppState::need_rerender
    left_mouse_pressed,  \* AppState::left_mouse_pressed
    right_mouse_pressed, \* AppState::right_mouse_pressed
    should_exit,         \* AppState::should_exit
    zoom_clock_,         \* milliseconds on the sf::Clock shared with SfmlEventHandler
    zoom_steps,          \* number of zoom steps applied so far (bounded by MaxZoomSteps)
    last_tick,           \* what HandleContinuousZoom did in the latest handler call
    pc,                  \* position of the driving thread in the frame pipeline
    num_threads,         \* MandelbrotRenderer's worker-pool size
    frame,               \* by-value copies held by the sender RenderAsync returned
    task_state,          \* per region task: idle, queued, running, value, error, stopped
    matrices,            \* per region task: the PixelMatrix it delivered
    wa_state,            \* when_all's state: started, error, stopped
    wa_error,            \* the error when_all kept: that of the first task that threw
    stop_requested,      \* when_all's stop source
    gate_completion,     \* what the render gate signalled to its receiver
    since_render,        \* "never" | "clean" | "dirty": AppState written since the last populated render
    image_,              \* colour grid held by the presentation image
    part_in,             \* input of the stand-alone partitioner run
    part_out,            \* its regions
    render_in,           \* input of the stand-alone RenderAsync<N> run
    render_out,          \* its RenderResult
    region_in,           \* input of the stand-alone ComputePixelMatrixForRegion run
    region_out,          \* its PixelMatrix
    last_events,         \* the events the latest handler call polled, until the gate is called
    last_mouse,          \* the pointer position that call read, <<>> when it read none
    signals,             \* completion signals sent so far by the operations of this cycle
    rendered_viewport    \* the viewport stamped on the latest populated RenderResult

vars == <<viewport, need_rerender, left_mouse_pressed, right_mouse_pressed, should_exit,
          zoom_clock_, zoom_steps, last_tick, pc, num_threads, frame, task_state, matrices,
          wa_state, wa_error, stop_requested, gate_completion, since_render, image_,
          part_in, part_out, render_in, render_out, region_in, region_out,
          last_events, last_mouse, signals, rendered_viewport>>

appVars == <<viewport, need_rerender, left_mouse_pressed, right_mouse_pressed, should_exit>>
zoomVars == <<zoom_clock_, zoom_steps, last_tick>>
fanVars == <<frame, task_state, matrices, wa_state, wa_error, stop_requested>>
partVars == <<part_in, part_out>>
renderVars == <<render_in, render_out, region_in, region_out>>
inputVars == <<last_events, last_mouse>>

----------------------------------------------------------------------------
(* Bounds of the model *)

MaxZoomSteps == 2
MaxEvents == 1
MaxClockTicks == 1
MaxStrips == 4
MaxPartHeight == 9
MaxPartWidth == 2

(* Program constants *)

THREAD_POOL_SIZE == 2
ZOOM_INTERVAL_MS == 100

----------------------------------------------------------------------------
(* Exact rational arithmetic standing for double arithmetic *)

Abs(n) == IF n < 0 THEN -n ELSE n

RECURSIVE GCD(_, _)
GCD(a, b) == IF b = 0 THEN a ELSE GCD(b, a % b)

Norm(n, d) ==
    LET g == GCD(Abs(n), d)
    IN  IF n = 0 THEN <<0, 1>> ELSE <<n \div g, d \div g>>

RInt(n) == <<n, 1>>

RAdd(a, b) ==
    LET g == GCD(a[2], b[2])
        l == (a[2] \div g) * b[2]
    IN  Norm(a[1] * (l \div a[2]) + b[1] * (l \div b[2]), l)

RNeg(a) == <<-a[1], a[2]>>

RSub(a, b) == RAdd(a, RNeg(b))

RMul(a, b) ==
    LET g1 == GCD(Abs(a[1]), b[2])
        g2 == GCD(Abs(b[1]), a[2])
        h1 == IF g1 = 0 THEN 1 ELSE g1
        h2 == IF g2 = 0 THEN 1 ELSE g2
    IN  Norm((a[1] \div h1) * (b[1] \div h2), (a[2] \div h2) * (b[2] \div h1))

\* a / b for b > 0
RDiv(a, b) == RMul(a, <<b[2], b[1]>>)

RLess(a, b) ==
    LET g == GCD(a[2], b[2])
    IN  a[1] * (b[2] \div g) < b[1] * (a[2] \div g)

----------------------------------------------------------------------------
(* Types *)

VpWidth(vp) == RSub(vp.x_max, vp.x_min)
VpHeight(vp) == RSub(vp.y_max, vp.y_min)

DefaultViewPort ==
    [x_min |-> RInt(-2), x_max |-> RInt(1), y_min |-> RInt(-1), y_max |-> RInt(1)]

\* RenderSettings{width, height, max_iterations, escape_radius}
FrameSettings == [width |-> 2, height |-> 2, max_iterations |-> 2, escape_radius |-> RInt(2)]

Black == [r |-> 0, g |-> 0, b |-> 0]

Min(a, b) == IF a < b THEN a ELSE b

----------------------------------------------------------------------------
(* Pure functions *)

\* real = x_min + col/screen_w * width(), imag = y_min + row/screen_h * height()
Pixel2DToComplex(col, row, vp, screen_w, screen_h) ==
    [re |-> RAdd(vp.x_min, RMul(RDiv(RInt(col), RInt(screen_w)), VpWidth(vp))),
     im |-> RAdd(vp.y_min, RMul(RDiv(RInt(row), RInt(screen_h)), VpHeight(vp)))]

CAbs2(z) == RAdd(RMul(z.re, z.re), RMul(z.im, z.im))

CSquarePlus(z, c) ==
    [re |-> RAdd(RSub(RMul(z.re, z.re), RMul(z.im, z.im)), c.re),
     im |-> RAdd(RMul(RInt(2), RMul(z.re, z.im)), c.im)]

RECURSIVE EscapeLoop(_, _, _, _, _)
EscapeLoop(z, c, i, max_iterations, r2) ==
    IF i >= max_iterations THEN max_iterations
    ELSE IF RLess(r2, CAbs2(z)) THEN i
    ELSE EscapeLoop(CSquarePlus(z, c), c, i + 1, max_iterations, r2)

CalculateIterationsForPoint(c, max_iterations, escape_radius) ==
    EscapeLoop([re |-> RInt(0), im |-> RInt(0)], c, 0, max_iterations,
               RMul(escape_radius, escape_radius))

IterationsToColor(it, max_iterations) ==
    IF it = max_iterations THEN Black
    ELSE [r |-> (it * 255) \div max_iterations, g |-> 0, b |-> 255 - (it * 255) \div max_iterations]

----------------------------------------------------------------------------
(* Region partitioner: the loop at the head of RenderAsync *)

RECURSIVE PartitionLoop(_, _, _, _, _)
PartitionLoop(i, current_row, regions, N, settings) ==
    IF i >= N THEN regions
    ELSE LET strip_height == settings.height \div N
             remainder == settings.height % N
             height == strip_height + (IF i < remainder THEN 1 ELSE 0)
         IN  PartitionLoop(i + 1, current_row + height,
                           Append(regions, [start_row |-> current_row,
                                            end_row |-> current_row + height,
                                            start_col |-> 0,
                                            end_col |-> settings.width]),
                           N, settings)

\* mutant: the remainder rows are handed to no strip
Partition_DropsRemainder(N, settings) ==
    [i \in 1..N |-> [start_row |-> (i - 1) * (settings.height \div N),
                     end_row |-> i * (settings.height \div N),
                     start_col |-> 0,
                     end_col |-> settings.width]]

Partition(N, settings) == PartitionLoop(0, 0, <<>>, N, settings)

----------------------------------------------------------------------------
(* Region task body and the merge step of RenderAsync *)

\* mutant: a region's rows are counted from the top of the region, not of the frame
ComputePixelMatrixForRegion_RegionRelative(vp, settings, region) ==
    LET screen_w == settings.width
        screen_h == settings.height
        start_r == Min(region.start_row, screen_h)
        end_r == Min(region.end_row, screen_h)
    IN  [i \in 1..(end_r - start_r) |->
            [c \in 1..screen_w |->
                CalculateIterationsForPoint(
                    Pixel2DToComplex(c - 1, i - 1, vp, screen_w, screen_h),
                    settings.max_iterations, settings.escape_radius)]]

\* mutant: the region's rows are not clamped to the frame
ComputePixelMatrixForRegion_NoClamp(vp, settings, region) ==
    LET screen_w == settings.width
        screen_h == settings.height
        start_r == region.start_row
        end_r == region.end_row
    IN  [i \in 1..(end_r - start_r) |->
            [c \in 1..screen_w |->
                CalculateIterationsForPoint(
                    Pixel2DToComplex(c - 1, start_r + i - 1, vp, screen_w, screen_h),
                    settings.max_iterations, settings.escape_radius)]]

ComputePixelMatrixForRegion(vp, settings, region) ==
    LET screen_w == settings.width
        screen_h == settings.height
        start_r == Min(region.start_row, screen_h)
        end_r == Min(region.end_row, screen_h)
    IN  [i \in 1..(end_r - start_r) |->
            [c \in 1..screen_w |->
                CalculateIterationsForPoint(
                    Pixel2DToComplex(c - 1, start_r + i - 1, vp, screen_w, screen_h),
                    settings.max_iterations, settings.escape_radius)]]

\* mutant: every matrix is written from the top row of the grids
MergeMatrix_IgnoresStartRow(result, reg, mat, settings) ==
    LET Covered(y, x) == /\ y \in 1..Len(mat)
                         /\ x - reg.start_col \in 1..Len(mat[y])
        It(y, x) == mat[y][x - reg.start_col]
    IN  [result EXCEPT
            !.pixel_data = [y \in 1..Len(result.pixel_data) |->
                               [x \in 1..Len(result.pixel_data[y]) |->
                                   IF Covered(y, x) THEN It(y, x) ELSE result.pixel_data[y][x]]],
            !.color_data = [y \in 1..Len(result.color_data) |->
                               [x \in 1..Len(result.color_data[y]) |->
                                   IF Covered(y, x)
                                   THEN IterationsToColor(It(y, x), settings.max_iterations)
                                   ELSE result.color_data[y][x]]]]

\* one expansion of the fold expression: the lambda applied to matrix number index
MergeMatrix(result, reg, mat, settings) ==
    LET Covered(y, x) == /\ y - reg.start_row \in 1..Len(mat)
                         /\ x - reg.start_col \in 1..Len(mat[y - reg.start_row])
        It(y, x) == mat[y - reg.start_row][x - reg.start_col]
    IN  [result EXCEPT
            !.pixel_data = [y \in 1..Len(result.pixel_data) |->
                               [x \in 1..Len(result.pixel_data[y]) |->
                                   IF Covered(y, x) THEN It(y, x) ELSE result.pixel_data[y][x]]],
            !.color_data = [y \in 1..Len(result.color_data) |->
                               [x \in 1..Len(result.color_data[y]) |->
                                   IF Covered(y, x)
                                   THEN IterationsToColor(It(y, x), settings.max_iterations)
                                   ELSE result.color_data[y][x]]]]

RECURSIVE MergeLoop(_, _, _, _, _)
MergeLoop(index, result, regions, mats, settings) ==
    IF index > Len(regions) THEN result
    ELSE MergeLoop(index + 1, MergeMatrix(result, regions[index], mats[index], settings),
                   regions, mats, settings)

\* mutant: the grids are not resized to the frame before the fold
MergeResult_NoResize(regions, vp, settings, mats) ==
    [viewport |-> vp, settings |-> settings, pixel_data |-> <<>>, color_data |-> <<>>]

\* the stdexec::then continuation of when_all
MergeResult(regions, vp, settings, mats) ==
    MergeLoop(1,
              [viewport |-> vp,
               settings |-> settings,
               pixel_data |-> [y \in 1..settings.height |-> [x \in 1..settings.width |-> 0]],
               color_data |-> [y \in 1..settings.height |-> [x \in 1..settings.width |-> Black]]],
              regions, mats, settings)

\* RenderAsync<N> run to completion: the regions, one matrix per region task,
\* and the merge
RenderAsync(N, vp, settings) ==
    LET regions == Partition(N, settings)
    IN  MergeResult(regions, vp, settings,
                    [i \in 1..N |-> ComputePixelMatrixForRegion(vp, settings, regions[i])])

\* the "nothing to do" RenderResult of the render gate
EmptyResult(settings, vp) ==
    [viewport |-> vp, settings |-> settings, pixel_data |-> <<>>, color_data |-> <<>>]

----------------------------------------------------------------------------
(* Event handling and the zoom controller *)

Events == {"Closed", "PressLeft", "PressRight", "ReleaseLeft", "ReleaseRight", "Other"}

EventBatches == UNION {[1..n -> Events] : n \in 0..MaxEvents}

\* pointer positions offered by sf::Mouse::getPosition: two inside the frame
\* (a corner and the centre pixel) and one beyond each edge
MousePositions ==
    LET w == FrameSettings.width
        h == FrameSettings.height
    IN  {<<0, 0>>, <<w \div 2, h \div 2>>, <<-1, 0>>, <<w, 0>>, <<0, -1>>, <<0, h>>}

\* mutant: releasing either button clears both held flags
HandleEvent_ReleaseClearsBoth(st, event) ==
    CASE event = "Closed" -> [st EXCEPT !.should_exit = TRUE]
      [] event = "PressLeft" -> [st EXCEPT !.left_mouse_pressed = TRUE, !.need_rerender = TRUE]
      [] event = "PressRight" -> [st EXCEPT !.right_mouse_pressed = TRUE, !.need_rerender = TRUE]
      [] event \in {"ReleaseLeft", "ReleaseRight"} ->
            [st EXCEPT !.left_mouse_pressed = FALSE, !.right_mouse_pressed = FALSE]
      [] OTHER -> st

\* one iteration of the pollEvent loop; st holds the AppState flags
HandleEvent(st, event) ==
    CASE event = "Closed" -> [st EXCEPT !.should_exit = TRUE]
      [] event = "PressLeft" -> [st EXCEPT !.left_mouse_pressed = TRUE, !.need_rerender = TRUE]
      [] event = "PressRight" -> [st EXCEPT !.right_mouse_pressed = TRUE, !.need_rerender = TRUE]
      [] event = "ReleaseLeft" -> [st EXCEPT !.left_mouse_pressed = FALSE]
      [] event = "ReleaseRight" -> [st EXCEPT !.right_mouse_pressed = FALSE]
      [] OTHER -> st

RECURSIVE HandleEvents(_, _)
HandleEvents(st, events) ==
    IF events = <<>> THEN st
    ELSE HandleEvents(HandleEvent(st, Head(events)), Tail(events))

\* mutant: the new span is laid out whole on each side of the target
ZoomToPoint_FullSpan(vp, pixel_x, pixel_y, zoom_in, settings) ==
    LET factor == <<4, 5>>
        target_x == RAdd(vp.x_min, RMul(RDiv(RInt(pixel_x), RInt(settings.width)), VpWidth(vp)))
        target_y == RAdd(vp.y_min, RMul(RDiv(RInt(pixel_y), RInt(settings.height)), VpHeight(vp)))
        zoom_factor == IF zoom_in THEN factor ELSE RDiv(RInt(1), factor)
        new_width == RMul(VpWidth(vp), zoom_factor)
        new_height == RMul(VpHeight(vp), zoom_factor)
    IN  [x_min |-> RSub(target_x, new_width),
         x_max |-> RAdd(target_x, new_width),
         y_min |-> RSub(target_y, new_height),
         y_max |-> RAdd(target_y, new_height)]

\* mutant: the two ends of each axis are laid out the wrong way round
ZoomToPoint_SwapsEnds(vp, pixel_x, pixel_y, zoom_in, settings) ==
    LET factor == <<4, 5>>
        target_x == RAdd(vp.x_min, RMul(RDiv(RInt(pixel_x), RInt(settings.width)), VpWidth(vp)))
        target_y == RAdd(vp.y_min, RMul(RDiv(RInt(pixel_y), RInt(settings.height)), VpHeight(vp)))
        zoom_factor == IF zoom_in THEN factor ELSE RDiv(RInt(1), factor)
        new_width == RMul(VpWidth(vp), zoom_factor)
        new_height == RMul(VpHeight(vp), zoom_factor)
    IN  [x_min |-> RAdd(target_x, RDiv(new_width, RInt(2))),
         x_max |-> RSub(target_x, RDiv(new_width, RInt(2))),
         y_min |-> RAdd(target_y, RDiv(new_height, RInt(2))),
         y_max |-> RSub(target_y, RDiv(new_height, RInt(2)))]

ZoomToPoint(vp, pixel_x, pixel_y, zoom_in, settings) ==
    LET factor == <<4, 5>>
        target_x == RAdd(vp.x_min, RMul(RDiv(RInt(pixel_x), RInt(settings.width)), VpWidth(vp)))
        target_y == RAdd(vp.y_min, RMul(RDiv(RInt(pixel_y), RInt(settings.height)), VpHeight(vp)))
        zoom_factor == IF zoom_in THEN factor ELSE RDiv(RInt(1), factor)
        new_width == RMul(VpWidth(vp), zoom_factor)
        new_height == RMul(VpHeight(vp), zoom_factor)
    IN  [x_min |-> RSub(target_x, RDiv(new_width, RInt(2))),
         x_max |-> RAdd(target_x, RDiv(new_width, RInt(2))),
         y_min |-> RSub(target_y, RDiv(new_height, RInt(2))),
         y_max |-> RAdd(target_y, RDiv(new_height, RInt(2)))]

\* mutant: a held button is enough, whatever the zoom clock shows
ZoomArmed_NoThrottle(st, clock) ==
    st.left_mouse_pressed \/ st.right_mouse_pressed

\* the outer condition of HandleContinuousZoom: a button is held and the
\* interval has elapsed on the zoom clock
ZoomArmed(st, clock) ==
    /\ st.left_mouse_pressed \/ st.right_mouse_pressed
    /\ clock >= ZOOM_INTERVAL_MS

\* mutant: the right and bottom edges count as inside the frame
InFrame_InclusiveEdges(mouse_pos, settings) ==
    /\ mouse_pos[1] >= 0 /\ mouse_pos[1] <= settings.width
    /\ mouse_pos[2] >= 0 /\ mouse_pos[2] <= settings.height

\* the inner condition of HandleContinuousZoom: the pointer is inside the frame
InFrame(mouse_pos, settings) ==
    /\ mouse_pos[1] >= 0 /\ mouse_pos[1] < settings.width
    /\ mouse_pos[2] >= 0 /\ mouse_pos[2] < settings.height

NoMouse == <<>>

NoTick == [kind |-> "none", x |-> 0, y |-> 0, before |-> DefaultViewPort]

----------------------------------------------------------------------------
(* State after construction *)

Tasks == 1..THREAD_POOL_SIZE

\* worker-pool sizes: a single worker, or as many workers as strips
PoolSizes == {1, THREAD_POOL_SIZE}

\* granularity of the modelled clock
ClockTickMs == ZOOM_INTERVAL_MS

Flags ==
    [should_exit |-> should_exit, left_mouse_pressed |-> left_mouse_pressed,
     right_mouse_pressed |-> right_mouse_pressed, need_rerender |-> need_rerender]

\* no operation of the cycle has signalled its receiver yet
NoSignals == [handler |-> 0, gate |-> 0, task |-> [i \in Tasks |-> 0]]

NoFrame == [viewport |-> DefaultViewPort, settings |-> FrameSettings, regions |-> <<>>]

NoError == [from |-> "none", task |-> 0]

NoCompletion ==
    [kind |-> "none", result |-> EmptyResult(FrameSettings, DefaultViewPort), error |-> NoError]

\* sf::Image::create fills the image with black
BlankImage == [y \in 1..FrameSettings.height |-> [x \in 1..FrameSettings.width |-> Black]]

NoRender == [done |-> FALSE, result |-> EmptyResult(FrameSettings, DefaultViewPort)]

NoRegion == [done |-> FALSE, matrix |-> <<>>]

\* the stand-alone runs of RenderAsync<N> and ComputePixelMatrixForRegion are not in use
RenderIdle ==
    /\ render_in = [n |-> 1, height |-> 1, width |-> 1, viewport |-> DefaultViewPort]
    /\ render_out = NoRender
    /\ region_in = [height |-> 1, width |-> 1, start_row |-> 0, end_row |-> 0]
    /\ region_out = NoRegion

InitPipeline ==
    /\ viewport = DefaultViewPort
    /\ left_mouse_pressed = FALSE
    /\ right_mouse_pressed = FALSE
    /\ zoom_clock_ = 0
    /\ zoom_steps = 0
    /\ last_tick = NoTick
    /\ last_events = <<>>
    /\ last_mouse = NoMouse
    /\ signals = NoSignals
    /\ rendered_viewport = DefaultViewPort
    /\ pc = "events"
    /\ frame = NoFrame
    /\ task_state = [i \in Tasks |-> "idle"]
    /\ matrices = [i \in Tasks |-> <<>>]
    /\ wa_state = "started"
    /\ wa_error = NoError
    /\ stop_requested = FALSE
    /\ gate_completion = NoCompletion
    /\ since_render = "never"
    /\ image_ = BlankImage

\* should_exit may be set before the loop is started, as the pipeline test does
Init ==
    /\ InitPipeline
    /\ need_rerender \in BOOLEAN
    /\ should_exit \in BOOLEAN
    /\ num_threads \in PoolSizes
    /\ part_in = [n |-> 1, height |-> 1, width |-> 1]
    /\ part_out = <<>>
    /\ RenderIdle

----------------------------------------------------------------------------
(* The driving thread: one action per stage of the frame pipeline *)

\* time passing on the zoom clock between two frames
ClockAdvance ==
    /\ pc = "events"
    /\ zoom_clock_ + ClockTickMs <= MaxClockTicks * ClockTickMs
    /\ zoom_clock_' = zoom_clock_ + ClockTickMs
    /\ UNCHANGED <<appVars, zoom_steps, last_tick, pc, num_threads, fanVars,
                   gate_completion, since_render, image_, partVars, renderVars, inputVars, signals, rendered_viewport>>

\* mutant: the right button decides the direction of the zoom step
ZoomAt_RightWins(st, mouse_pos) ==
    IF InFrame(mouse_pos, FrameSettings)
    THEN /\ zoom_steps < MaxZoomSteps
         /\ viewport' = ZoomToPoint(viewport, mouse_pos[1], mouse_pos[2],
                                    ~st.right_mouse_pressed, FrameSettings)
         /\ zoom_clock_' = 0
         /\ zoom_steps' = zoom_steps + 1
         /\ last_tick' = [kind |-> IF ~st.right_mouse_pressed THEN "in" ELSE "out",
                          x |-> mouse_pos[1], y |-> mouse_pos[2],
                          before |-> viewport]
         /\ last_mouse' = mouse_pos
    ELSE /\ UNCHANGED <<viewport, zoom_clock_, zoom_steps>>
         /\ last_tick' = NoTick
         /\ last_mouse' = mouse_pos

\* the body of HandleContinuousZoom once the pointer position has been read
ZoomAt(st, mouse_pos) ==
    IF InFrame(mouse_pos, FrameSettings)
    THEN /\ zoom_steps < MaxZoomSteps
         /\ viewport' = ZoomToPoint(viewport, mouse_pos[1], mouse_pos[2],
                                    st.left_mouse_pressed, FrameSettings)
         /\ zoom_clock_' = 0
         /\ zoom_steps' = zoom_steps + 1
         /\ last_tick' = [kind |-> IF st.left_mouse_pressed THEN "in" ELSE "out",
                          x |-> mouse_pos[1], y |-> mouse_pos[2],
                          before |-> viewport]
         /\ last_mouse' = mouse_pos
    ELSE /\ UNCHANGED <<viewport, zoom_clock_, zoom_steps>>
         /\ last_tick' = NoTick
         /\ last_mouse' = mouse_pos

\* HandleContinuousZoom with the flags st left by HandleEvents; the pointer
\* position is read only when a button is held and the interval has elapsed
HandleContinuousZoom(st) ==
    IF ZoomArmed(st, zoom_clock_)
    THEN \E mouse_pos \in MousePositions : ZoomAt(st, mouse_pos)
    ELSE /\ UNCHANGED <<viewport, zoom_clock_, zoom_steps>>
         /\ last_tick' = NoTick
         /\ last_mouse' = NoMouse

\* mutant: the handler signals set_value whatever should_exit says
EventHandlerStart_IgnoresExit(events) ==
    LET st == HandleEvents(Flags, events)
    IN  /\ pc = "events"
        /\ should_exit' = st.should_exit
        /\ left_mouse_pressed' = st.left_mouse_pressed
        /\ right_mouse_pressed' = st.right_mouse_pressed
        /\ need_rerender' = st.need_rerender
        /\ HandleContinuousZoom(st)
        /\ pc' = "gate"
        /\ since_render' = IF since_render = "clean" /\ appVars' # appVars
                           THEN "dirty" ELSE since_render
        /\ last_events' = events
        /\ signals' = [signals EXCEPT !.handler = @ + 1]
        /\ UNCHANGED <<num_threads, fanVars, gate_completion, image_, partVars, renderVars,
                       rendered_viewport>>

\* SfmlEventHandler::OperationState::start: HandleEvents, HandleContinuousZoom,
\* then set_stopped or set_value
EventHandlerStart(events) ==
    LET st == HandleEvents(Flags, events)
    IN  /\ pc = "events"
        /\ should_exit' = st.should_exit
        /\ left_mouse_pressed' = st.left_mouse_pressed
        /\ right_mouse_pressed' = st.right_mouse_pressed
        /\ need_rerender' = st.need_rerender
        /\ HandleContinuousZoom(st)
        /\ pc' = IF st.should_exit THEN "done" ELSE "gate"
        /\ since_render' = IF since_render = "clean" /\ appVars' # appVars
                           THEN "dirty" ELSE since_render
        /\ last_events' = events
        /\ signals' = [signals EXCEPT !.handler = @ + 1]
        /\ UNCHANGED <<num_threads, fanVars, gate_completion, image_, partVars, renderVars,
                       rendered_viewport>>

\* mutant: the return after the early set_value is missing, so the gate goes
\* on to render and signals again
GateSentinel_FallsThrough ==
    /\ gate_completion' = [kind |-> "value",
                           result |-> EmptyResult(FrameSettings, viewport),
                           error |-> NoError]
    /\ signals' = [signals EXCEPT !.gate = @ + 1]
    /\ frame' = [viewport |-> viewport, settings |-> FrameSettings,
                 regions |-> Partition(THREAD_POOL_SIZE, FrameSettings)]
    /\ task_state' = [i \in Tasks |-> "queued"]
    /\ matrices' = [i \in Tasks |-> <<>>]
    /\ wa_state' = "started"
    /\ wa_error' = NoError
    /\ stop_requested' = FALSE
    /\ pc' = "fanin"

\* the early return of the render gate: set_value with an empty RenderResult
GateSentinel ==
    /\ gate_completion' = [kind |-> "value",
                           result |-> EmptyResult(FrameSettings, viewport),
                           error |-> NoError]
    /\ pc' = "present"
    /\ signals' = [signals EXCEPT !.gate = @ + 1]
    /\ UNCHANGED fanVars

\* mutant: the render is started on a default-constructed ViewPort
GateDispatch_DefaultViewPort ==
    /\ frame' = [viewport |-> DefaultViewPort, settings |-> FrameSettings,
                 regions |-> Partition(THREAD_POOL_SIZE, FrameSettings)]
    /\ task_state' = [i \in Tasks |-> "queued"]
    /\ matrices' = [i \in Tasks |-> <<>>]
    /\ wa_state' = "started"
    /\ wa_error' = NoError
    /\ stop_requested' = FALSE
    /\ pc' = "fanin"
    /\ UNCHANGED <<gate_completion, signals>>

\* RenderAsync<THREAD_POOL_SIZE>(state_.viewport, render_settings_) and the start of
\* sync_wait: the regions are built, the arguments copied, every task scheduled
GateDispatch ==
    /\ frame' = [viewport |-> viewport, settings |-> FrameSettings,
                 regions |-> Partition(THREAD_POOL_SIZE, FrameSettings)]
    /\ task_state' = [i \in Tasks |-> "queued"]
    /\ matrices' = [i \in Tasks |-> <<>>]
    /\ wa_state' = "started"
    /\ wa_error' = NoError
    /\ stop_requested' = FALSE
    /\ pc' = "fanin"
    /\ UNCHANGED <<gate_completion, signals>>

\* mutant: the gate renders whatever need_rerender says
GateStart_AlwaysRenders ==
    /\ pc = "gate"
    /\ GateDispatch
    /\ last_events' = <<>>
    /\ last_mouse' = NoMouse
    /\ UNCHANGED <<appVars, zoomVars, num_threads, since_render, image_, partVars, renderVars,
                   rendered_viewport>>

\* mutant: the gate starts the fan-in and returns at once instead of waiting for it
GateStart_DoesNotWait ==
    /\ pc = "gate"
    /\ IF ~need_rerender
       THEN GateSentinel
       ELSE /\ frame' = [viewport |-> viewport, settings |-> FrameSettings,
                         regions |-> Partition(THREAD_POOL_SIZE, FrameSettings)]
            /\ task_state' = [i \in Tasks |-> "queued"]
            /\ matrices' = [i \in Tasks |-> <<>>]
            /\ wa_state' = "started"
            /\ wa_error' = NoError
            /\ stop_requested' = FALSE
            /\ gate_completion' = [kind |-> "value",
                                   result |-> EmptyResult(FrameSettings, viewport),
                                   error |-> NoError]
            /\ signals' = [signals EXCEPT !.gate = @ + 1]
            /\ pc' = "present"
    /\ last_events' = <<>>
    /\ last_mouse' = NoMouse
    /\ UNCHANGED <<appVars, zoomVars, num_threads, since_render, image_, partVars, renderVars,
                   rendered_viewport>>

\* CalculateMandelbrotAsyncSender::OpState::start up to the point where
\* sync_wait blocks on the sender RenderAsync returned
GateStart ==
    /\ pc = "gate"
    /\ IF ~need_rerender THEN GateSentinel ELSE GateDispatch
    /\ last_events' = <<>>
    /\ last_mouse' = NoMouse
    /\ UNCHANGED <<appVars, zoomVars, num_threads, since_render, image_, partVars, renderVars,
                   rendered_viewport>>

Running == {i \in Tasks : task_state[i] = "running"}

\* mutant: a worker stays bound to the task it ran after the task completed
PoolExecute_WorkerNeverFreed(i) ==
    /\ pc = "fanin"
    /\ task_state[i] = "queued"
    /\ Cardinality({j \in Tasks : task_state[j] \notin {"idle", "queued"}}) < num_threads
    /\ IF stop_requested
       THEN /\ task_state' = [task_state EXCEPT ![i] = "stopped"]
            /\ wa_state' = IF wa_state = "started" THEN "stopped" ELSE wa_state
            /\ signals' = [signals EXCEPT !.task[i] = @ + 1]
       ELSE /\ task_state' = [task_state EXCEPT ![i] = "running"]
            /\ UNCHANGED <<wa_state, signals>>
    /\ UNCHANGED <<appVars, zoomVars, pc, num_threads, frame, matrices, wa_error,
                   stop_requested, gate_completion, since_render, image_, partVars,
                   renderVars, inputVars, rendered_viewport>>

\* a pool worker takes the schedule operation of task i off the queue: it
\* completes with set_stopped when when_all's stop source has been triggered,
\* otherwise it goes on to start the MandelbrotSender
PoolExecute(i) ==
    /\ pc = "fanin"
    /\ task_state[i] = "queued"
    /\ Cardinality(Running) < num_threads
    /\ IF stop_requested
       THEN /\ task_state' = [task_state EXCEPT ![i] = "stopped"]
            /\ wa_state' = IF wa_state = "started" THEN "stopped" ELSE wa_state
            /\ signals' = [signals EXCEPT !.task[i] = @ + 1]
       ELSE /\ task_state' = [task_state EXCEPT ![i] = "running"]
            /\ UNCHANGED <<wa_state, signals>>
    /\ UNCHANGED <<appVars, zoomVars, pc, num_threads, frame, matrices, wa_error,
                   stop_requested, gate_completion, since_render, image_, partVars,
                   renderVars, inputVars, rendered_viewport>>

\* mutant: when_all keeps the matrices in the order the tasks completed
TaskStart_StoresInArrivalOrder(i, throws) ==
    /\ pc = "fanin"
    /\ task_state[i] = "running"
    /\ IF throws
       THEN /\ task_state' = [task_state EXCEPT ![i] = "error"]
            /\ wa_state' = "error"
            /\ wa_error' = IF wa_state = "error" THEN wa_error
                           ELSE [from |-> "task", task |-> i]
            /\ stop_requested' = TRUE
            /\ UNCHANGED matrices
       ELSE /\ task_state' = [task_state EXCEPT ![i] = "value"]
            /\ matrices' = [matrices EXCEPT
                               ![1 + Cardinality({j \in Tasks : task_state[j] = "value"})] =
                                   ComputePixelMatrixForRegion(frame.viewport, frame.settings,
                                                               frame.regions[i])]
            /\ UNCHANGED <<wa_state, wa_error, stop_requested>>
    /\ signals' = [signals EXCEPT !.task[i] = @ + 1]
    /\ UNCHANGED <<appVars, zoomVars, pc, num_threads, frame, gate_completion,
                   since_render, image_, partVars, renderVars, inputVars, rendered_viewport>>

\* MandelbrotOperationState::start: set_value with the region's matrix, or
\* set_error when ComputePixelMatrixForRegion throws; when_all keeps the first
\* error and triggers its stop source
TaskStart(i, throws) ==
    /\ pc = "fanin"
    /\ task_state[i] = "running"
    /\ IF throws
       THEN /\ task_state' = [task_state EXCEPT ![i] = "error"]
            /\ wa_state' = "error"
            /\ wa_error' = IF wa_state = "error" THEN wa_error
                           ELSE [from |-> "task", task |-> i]
            /\ stop_requested' = TRUE
            /\ UNCHANGED matrices
       ELSE /\ task_state' = [task_state EXCEPT ![i] = "value"]
            /\ matrices' = [matrices EXCEPT ![i] =
                               ComputePixelMatrixForRegion(frame.viewport, frame.settings,
                                                           frame.regions[i])]
            /\ UNCHANGED <<wa_state, wa_error, stop_requested>>
    /\ signals' = [signals EXCEPT !.task[i] = @ + 1]
    /\ UNCHANGED <<appVars, zoomVars, pc, num_threads, frame, gate_completion,
                   since_render, image_, partVars, renderVars, inputVars, rendered_viewport>>

AllTasksDone == \A i \in Tasks : task_state[i] \in {"value", "error", "stopped"}

BadOptionalAccess == [from |-> "bad_optional_access", task |-> 0]

\* the gate signals its receiver and the operation state of the fan-in is destroyed;
\* clear tells whether the statement state_.need_rerender = false was reached
GateDeliver(kind, result, error, clear) ==
    /\ gate_completion' = [kind |-> kind, result |-> result, error |-> error]
    /\ need_rerender' = IF clear THEN FALSE ELSE need_rerender
    /\ since_render' = IF kind = "value" THEN "clean" ELSE since_render
    /\ pc' = IF kind = "value" THEN "present" ELSE "failed"
    /\ frame' = NoFrame
    /\ task_state' = [i \in Tasks |-> "idle"]
    /\ matrices' = [i \in Tasks |-> <<>>]
    /\ wa_state' = "started"
    /\ wa_error' = NoError
    /\ stop_requested' = FALSE
    /\ signals' = [signals EXCEPT !.gate = @ + 1, !.task = [i \in Tasks |-> 0]]
    /\ rendered_viewport' = IF kind = "value" THEN result.viewport ELSE rendered_viewport
    /\ UNCHANGED <<viewport, left_mouse_pressed, right_mouse_pressed, should_exit,
                   zoomVars, num_threads, image_, partVars, renderVars, inputVars>>

Merged == MergeResult(frame.regions, frame.viewport, frame.settings, matrices)

\* mutant: need_rerender is cleared before the outcome of sync_wait is known
GateFinish_ClearsFlagFirst ==
    /\ pc = "fanin"
    /\ AllTasksDone
    /\ CASE wa_state = "started" -> GateDeliver("value", Merged, NoError, TRUE)
         [] wa_state = "error" -> GateDeliver("error", NoCompletion.result, wa_error, TRUE)
         [] wa_state = "stopped" ->
              GateDeliver("error", NoCompletion.result, BadOptionalAccess, TRUE)

\* mutant: need_rerender is never cleared
GateFinish_KeepsFlag ==
    /\ pc = "fanin"
    /\ AllTasksDone
    /\ CASE wa_state = "started" -> GateDeliver("value", Merged, NoError, FALSE)
         [] wa_state = "error" -> GateDeliver("error", NoCompletion.result, wa_error, FALSE)
         [] wa_state = "stopped" ->
              GateDeliver("error", NoCompletion.result, BadOptionalAccess, FALSE)

\* mutant: the matrices that arrived are merged whatever the other tasks did
GateFinish_MergesPartial ==
    /\ pc = "fanin"
    /\ AllTasksDone
    /\ GateDeliver("value", Merged, NoError, TRUE)

\* the rest of CalculateMandelbrotAsyncSender::OpState::start, once sync_wait
\* returns: it rethrows the error of the fan-in, and .value() of the empty
\* optional of a stopped fan-in throws std::bad_optional_access; both are caught
\* and signalled with set_error
GateFinish ==
    /\ pc = "fanin"
    /\ AllTasksDone
    /\ CASE wa_state = "started" -> GateDeliver("value", Merged, NoError, TRUE)
         [] wa_state = "error" -> GateDeliver("error", NoCompletion.result, wa_error, FALSE)
         [] wa_state = "stopped" ->
              GateDeliver("error", NoCompletion.result, BadOptionalAccess, FALSE)

\* SFMLRender::OperationState::start
PresentStart ==
    /\ pc = "present"
    /\ image_' = IF gate_completion.result.color_data = <<>>
                 THEN image_
                 ELSE [r \in 1..FrameSettings.height |->
                          [c \in 1..FrameSettings.width |->
                              gate_completion.result.color_data[r][c]]]
    /\ pc' = "pace"
    /\ UNCHANGED <<appVars, zoomVars, num_threads, fanVars, gate_completion,
                   since_render, partVars, renderVars, inputVars, signals, rendered_viewport>>

\* WaitForFPS, then the predicate of repeat_effect_until
FrameEnd ==
    /\ pc = "pace"
    /\ pc' = IF should_exit THEN "done" ELSE "events"
    /\ gate_completion' = NoCompletion
    /\ last_tick' = NoTick
    /\ signals' = NoSignals
    /\ UNCHANGED <<appVars, zoom_clock_, zoom_steps, num_threads, fanVars,
                   since_render, image_, partVars, renderVars, inputVars, rendered_viewport>>

\* the session loop runs the frame loop again after a failed frame
RestartLoop ==
    /\ pc = "failed"
    /\ pc' = "events"
    /\ gate_completion' = NoCompletion
    /\ last_tick' = NoTick
    /\ signals' = NoSignals
    /\ UNCHANGED <<appVars, zoom_clock_, zoom_steps, num_threads, fanVars,
                   since_render, image_, partVars, renderVars, inputVars, rendered_viewport>>

Next ==
    \/ ClockAdvance
    \/ \E events \in EventBatches : EventHandlerStart(events)
    \/ GateStart
    \/ \E i \in Tasks : PoolExecute(i)
    \/ \E i \in Tasks, throws \in BOOLEAN : TaskStart(i, throws)
    \/ GateFinish
    \/ PresentStart
    \/ FrameEnd
    \/ RestartLoop

Spec == Init /\ [][Next]_vars

----------------------------------------------------------------------------
(* The partitioner on its own, over a range of frame heights and strip counts *)

PartitionInputs ==
    [n : 1..MaxStrips, height : 1..MaxPartHeight, width : 1..MaxPartWidth]

InitPartition ==
    /\ InitPipeline
    /\ need_rerender = TRUE
    /\ should_exit = FALSE
    /\ num_threads = 1
    /\ part_in \in PartitionInputs
    /\ part_out = <<>>
    /\ RenderIdle

\* the region loop of RenderAsync<N> for settings of part_in's size
PartitionStep ==
    /\ part_out = <<>>
    /\ part_out' = Partition(part_in.n,
                             [FrameSettings EXCEPT !.width = part_in.width,
                                                   !.height = part_in.height])
    /\ UNCHANGED <<appVars, zoomVars, pc, num_threads, fanVars, gate_completion,
                   since_render, image_, part_in, renderVars, inputVars, signals, rendered_viewport>>

NextPartition == PartitionStep

SpecPartition == InitPartition /\ [][NextPartition]_vars

----------------------------------------------------------------------------
(* RenderAsync<N> on its own, over strip counts, frame sizes and viewports *)

\* the default viewport and the square of side 4 around the origin
RenderViewPorts ==
    {DefaultViewPort,
     [x_min |-> RInt(-2), x_max |-> RInt(2), y_min |-> RInt(-2), y_max |-> RInt(2)]}

RenderInputs ==
    [n : 1..MaxStrips, height : 1..MaxPartHeight, width : 1..MaxPartWidth,
     viewport : RenderViewPorts]

\* RenderSettings of the drawn size, deep enough for three escape-time counts
RenderSettings(in) ==
    [width |-> in.width, height |-> in.height, max_iterations |-> 3, escape_radius |-> RInt(2)]

InitRender ==
    /\ InitPipeline
    /\ need_rerender = TRUE
    /\ should_exit = FALSE
    /\ num_threads = 1
    /\ part_in = [n |-> 1, height |-> 1, width |-> 1]
    /\ part_out = <<>>
    /\ render_in \in RenderInputs
    /\ render_out = NoRender
    /\ region_in = [height |-> 1, width |-> 1, start_row |-> 0, end_row |-> 0]
    /\ region_out = NoRegion

\* RenderAsync<N>(viewport, settings) followed by sync_wait
RenderStep ==
    /\ ~render_out.done
    /\ render_out' = [done |-> TRUE,
                      result |-> RenderAsync(render_in.n, render_in.viewport,
                                             RenderSettings(render_in))]
    /\ UNCHANGED <<appVars, zoomVars, pc, num_threads, fanVars, gate_completion,
                   since_render, image_, partVars, render_in, region_in, region_out, inputVars, signals, rendered_viewport>>

NextRender == RenderStep

SpecRender == InitRender /\ [][NextRender]_vars

----------------------------------------------------------------------------
(* ComputePixelMatrixForRegion on its own, over regions inside and beyond the frame *)

RegionInputs ==
    {in \in [height : 1..MaxPartHeight, width : 1..MaxPartWidth,
             start_row : 0..(MaxPartHeight + 1), end_row : 0..(MaxPartHeight + 1)] :
        in.start_row <= in.end_row}

RegionOf(in) ==
    [start_row |-> in.start_row, end_row |-> in.end_row, start_col |-> 0, end_col |-> in.width]

InitRegion ==
    /\ InitPipeline
    /\ need_rerender = TRUE
    /\ should_exit = FALSE
    /\ num_threads = 1
    /\ part_in = [n |-> 1, height |-> 1, width |-> 1]
    /\ part_out = <<>>
    /\ render_in = [n |-> 1, height |-> 1, width |-> 1, viewport |-> DefaultViewPort]
    /\ render_out = NoRender
    /\ region_in \in RegionInputs
    /\ region_out = NoRegion

\* one call of ComputePixelMatrixForRegion with the default viewport
RegionStep ==
    /\ ~region_out.done
    /\ region_out' = [done |-> TRUE,
                      matrix |-> ComputePixelMatrixForRegion(DefaultViewPort,
                                                             RenderSettings(region_in),
                                                             RegionOf(region_in))]
    /\ UNCHANGED <<appVars, zoomVars, pc, num_threads, fanVars, gate_completion,
                   since_render, image_, partVars, render_in, render_out, region_in, inputVars, signals, rendered_viewport>>

NextRegion == RegionStep

SpecRegion == InitRegion /\ [][NextRegion]_vars

----------------------------------------------------------------------------
(* One call of the render gate, with the scheduling the worker pool provides *)

\* the gate is about to be called at the end of an event/zoom step: any
\* combination of held buttons and of need_rerender, either pool size
InitGate ==
    /\ viewport = DefaultViewPort
    /\ need_rerender \in BOOLEAN
    /\ left_mouse_pressed \in BOOLEAN
    /\ right_mouse_pressed \in BOOLEAN
    /\ should_exit = FALSE
    /\ zoom_clock_ \in {0, ZOOM_INTERVAL_MS}
    /\ zoom_steps = 0
    /\ last_tick = NoTick
    /\ last_events = <<>>
    /\ last_mouse = NoMouse
    /\ signals = [NoSignals EXCEPT !.handler = 1]
    /\ rendered_viewport = DefaultViewPort
    /\ pc = "gate"
    /\ num_threads \in PoolSizes
    /\ frame = NoFrame
    /\ task_state = [i \in Tasks |-> "idle"]
    /\ matrices = [i \in Tasks |-> <<>>]
    /\ wa_state = "started"
    /\ wa_error = NoError
    /\ stop_requested = FALSE
    /\ gate_completion = NoCompletion
    /\ since_render = "never"
    /\ image_ = BlankImage
    /\ part_in = [n |-> 1, height |-> 1, width |-> 1]
    /\ part_out = <<>>
    /\ RenderIdle

NextGate ==
    \/ GateStart
    \/ \E i \in Tasks : PoolExecute(i)
    \/ \E i \in Tasks, throws \in BOOLEAN : TaskStart(i, throws)
    \/ GateFinish

\* some region task has been taken by a worker and has not signalled yet: the
\* states in which a TaskStart step is possible
TaskRunnable == pc = "fanin" /\ Running # {}

\* a worker that is free takes a queued task, a task that was started runs to
\* its completion signal, and sync_wait returns once the fan-in has completed.
\* The last conjunct is weak fairness of TaskStart written out, with
\* TaskRunnable for ENABLED <<TaskStart>>_vars.
SpecGate ==
    /\ InitGate
    /\ [][NextGate]_vars
    /\ WF_vars(\E i \in Tasks : PoolExecute(i))
    /\ WF_vars(GateFinish)
    /\ \/ []<>(~TaskRunnable)
       \/ []<><<\E i \in Tasks, throws \in BOOLEAN : TaskStart(i, throws)>>_vars

----------------------------------------------------------------------------
(* The pipeline from a gate call whose fan-in has received a stop request *)

InitCancel ==
    /\ viewport = DefaultViewPort
    /\ need_rerender = TRUE
    /\ left_mouse_pressed = FALSE
    /\ right_mouse_pressed = FALSE
    /\ should_exit = FALSE
    /\ zoom_clock_ = 0
    /\ zoom_steps = 0
    /\ last_tick = NoTick
    /\ last_events = <<>>
    /\ last_mouse = NoMouse
    /\ signals = [NoSignals EXCEPT !.handler = 1]
    /\ rendered_viewport = DefaultViewPort
    /\ pc = "fanin"
    /\ num_threads \in PoolSizes
    /\ frame = [viewport |-> DefaultViewPort, settings |-> FrameSettings,
                regions |-> Partition(THREAD_POOL_SIZE, FrameSettings)]
    /\ task_state = [i \in Tasks |-> "queued"]
    /\ matrices = [i \in Tasks |-> <<>>]
    /\ wa_state = "started"
    /\ wa_error = NoError
    /\ stop_requested = TRUE
    /\ gate_completion = NoCompletion
    /\ since_render = "never"
    /\ image_ = BlankImage
    /\ part_in = [n |-> 1, height |-> 1, width |-> 1]
    /\ part_out = <<>>
    /\ RenderIdle

SpecCancel == InitCancel /\ [][Next]_vars

----------------------------------------------------------------------------
(* Steps of the render gate, as seen between two states *)

GateCalled == pc = "gate" /\ pc' # "gate"
GateReturned == pc = "fanin" /\ pc' # "fanin"
HandlerRan == pc = "events" /\ pc' # "events"

IsSentinel(c) ==
    /\ c.kind = "value"
    /\ c.result.pixel_data = <<>>
    /\ c.result.color_data = <<>>

IsPopulated(c) ==
    /\ c.kind = "value"
    /\ Len(c.result.pixel_data) = FrameSettings.height
    /\ Len(c.result.color_data) = FrameSettings.height
    /\ FrameSettings.height > 0
    /\ \A y \in 1..FrameSettings.height :
          /\ Len(c.result.pixel_data[y]) = FrameSettings.width
          /\ Len(c.result.color_data[y]) = FrameSettings.width
    /\ FrameSettings.width > 0

NothingDispatched == \A i \in Tasks : task_state'[i] = "idle"

----------------------------------------------------------------------------
(* Claims *)

\* C1: for height >= N >= 1 the N regions of the partitioner are ordered by row
\* and contiguous from row 0 to row height, each spans columns [0, width), every
\* row lies in exactly one region (so the regions are pairwise disjoint and cover
\* the frame), and any two regions' row counts differ by at most 1.
C1_PartitionInvariant ==
    (part_out # <<>> /\ part_in.height >= part_in.n) =>
        LET regs == part_out
            n == part_in.n
            Rows(i) == regs[i].end_row - regs[i].start_row
        IN  /\ Len(regs) = n
            /\ regs[1].start_row = 0
            /\ regs[n].end_row = part_in.height
            /\ \A i \in 1..n : /\ regs[i].start_row <= regs[i].end_row
                               /\ regs[i].start_col = 0
                               /\ regs[i].end_col = part_in.width
            /\ \A i \in 1..(n - 1) : regs[i].end_row <= regs[i + 1].start_row
            /\ \A i, j \in 1..n :
                  i # j => \/ regs[i].end_row <= regs[j].start_row
                           \/ regs[j].end_row <= regs[i].start_row
            /\ \A r \in 0..(part_in.height - 1) :
                  Cardinality({i \in 1..n : regs[i].start_row <= r /\ r < regs[i].end_row}) = 1
            /\ \A i, j \in 1..n : Rows(i) - Rows(j) <= 1

C1_Witness ==
    /\ part_out # <<>>
    /\ part_in.n >= 3
    /\ part_in.height > part_in.n
    /\ part_in.height % part_in.n # 0

\* C2: a gate call made while need_rerender is false completes with a value
\* whose viewport and settings are the current ones and whose grids are empty,
\* schedules no region task, and leaves need_rerender false.
C2_IdleGateReturnsSentinel ==
    [][(GateCalled /\ ~need_rerender) =>
          /\ IsSentinel(gate_completion')
          /\ gate_completion'.result.viewport = viewport
          /\ gate_completion'.result.settings = FrameSettings
          /\ NothingDispatched
          /\ pc' = "present"
          /\ ~need_rerender']_vars

C2_Witness ==
    /\ pc = "present"
    /\ IsSentinel(gate_completion)
    /\ ~need_rerender
    /\ since_render = "never"

\* C3: a gate call made while need_rerender is true, all of whose region tasks
\* succeed, completes with a value whose grids have the full frame size, and
\* need_rerender is false when that value is delivered.
C3_RenderDeliversFrame ==
    [][(GateReturned /\ \A i \in Tasks : task_state[i] = "value") =>
          /\ need_rerender
          /\ IsPopulated(gate_completion')
          /\ gate_completion'.result.viewport = viewport
          /\ ~need_rerender']_vars

C3_Witness ==
    /\ pc = "present"
    /\ IsPopulated(gate_completion)
    /\ ~need_rerender

\* C4: when the fan-in of a gate call fails, the gate completes with the error
\* outcome and need_rerender is still true; it stays true until a gate call
\* succeeds, and a gate call made while it is true schedules the tasks again.
C4_FailedFrameKeepsFlag ==
    [][/\ (GateReturned /\ wa_state = "error") =>
             /\ gate_completion'.kind = "error"
             /\ need_rerender
             /\ need_rerender'
       /\ (need_rerender /\ ~need_rerender') =>
             (GateReturned /\ gate_completion'.kind = "value")
       /\ (GateCalled /\ need_rerender) =>
             /\ pc' = "fanin"
             /\ \A i \in Tasks : task_state'[i] = "queued"]_vars

C4_Witness ==
    /\ pc = "failed"
    /\ gate_completion.kind = "error"
    /\ gate_completion.error.from = "task"
    /\ need_rerender

\* C5: once a populated render has been delivered, every gate call made before
\* any field of AppState is written again returns the empty sentinel, schedules
\* no task and leaves need_rerender false.
C5_GateIdempotent ==
    [][(GateCalled /\ since_render = "clean") =>
          /\ IsSentinel(gate_completion')
          /\ NothingDispatched
          /\ ~need_rerender'
          /\ since_render' = "clean"]_vars

C5_Witness ==
    /\ pc = "present"
    /\ since_render = "clean"
    /\ IsSentinel(gate_completion)

\* C6: when a region task of a frame completes with an error, the gate call of
\* that frame ends with the error of a task that threw (the first one), no
\* RenderResult is delivered, and a populated result is delivered only when all
\* N tasks completed with a value.
C6_TaskErrorFailsFrame ==
    [][GateReturned =>
          /\ (\E i \in Tasks : task_state[i] = "error") =>
                /\ gate_completion'.kind = "error"
                /\ gate_completion'.error = wa_error
                /\ gate_completion'.error.from = "task"
                /\ task_state[gate_completion'.error.task] = "error"
                /\ gate_completion'.result.pixel_data = <<>>
                /\ gate_completion'.result.color_data = <<>>
                /\ pc' = "failed"
                /\ image_' = image_
          /\ gate_completion'.kind = "value" =>
                \A i \in Tasks : task_state[i] = "value"]_vars

C6_Witness ==
    /\ pc = "fanin"
    /\ AllTasksDone
    /\ \E i \in Tasks : task_state[i] = "value"
    /\ \E i \in Tasks : task_state[i] = "error"

C8_ZoomTickSetsFlag ==
    [][(HandlerRan /\ last_tick'.kind # "none") => need_rerender']_vars

\* C9: the complex coordinate of the pointer pixel is the same under the
\* viewport before a zoom step at that pixel and under the viewport after it.
C9_ZoomFixedPoint ==
    last_tick.kind # "none" =>
        Pixel2DToComplex(last_tick.x, last_tick.y, viewport,
                         FrameSettings.width, FrameSettings.height)
        = Pixel2DToComplex(last_tick.x, last_tick.y, last_tick.before,
                           FrameSettings.width, FrameSettings.height)

\* C10: a zoom-in step multiplies the viewport's width and height by 0.8 (so
\* both strictly decrease), a zoom-out step multiplies both by 1/0.8.
C10_ZoomScalesSpan ==
    /\ last_tick.kind = "in" =>
          /\ VpWidth(viewport) = RMul(<<4, 5>>, VpWidth(last_tick.before))
          /\ VpHeight(viewport) = RMul(<<4, 5>>, VpHeight(last_tick.before))
          /\ RLess(VpWidth(viewport), VpWidth(last_tick.before))
          /\ RLess(VpHeight(viewport), VpHeight(last_tick.before))
    /\ last_tick.kind = "out" =>
          /\ VpWidth(viewport) = RMul(<<5, 4>>, VpWidth(last_tick.before))
          /\ VpHeight(viewport) = RMul(<<5, 4>>, VpHeight(last_tick.before))

C10_Witness ==
    /\ last_tick.kind = "out"
    /\ last_tick.before # DefaultViewPort
    /\ zoom_steps = MaxZoomSteps

----------------------------------------------------------------------------
(* The rendered grid *)

\* the escape-time count of the point pixel (col, row) maps to, 0-based
PixelIterations(col, row, vp, settings) ==
    CalculateIterationsForPoint(
        Pixel2DToComplex(col, row, vp, settings.width, settings.height),
        settings.max_iterations, settings.escape_radius)

\* the region tasks of a render of N strips whose matrix holds frame row r (0-based)
Writers(r, N, vp, settings) ==
    LET regions == Partition(N, settings)
    IN  {i \in 1..N :
            r - regions[i].start_row
                \in 0..(Len(ComputePixelMatrixForRegion(vp, settings, regions[i])) - 1)}

\* C11: for a fixed viewport and fixed settings, the pixel_data of a render
\* with N strips (N = 4 among them) is the pixel_data of the render with one
\* strip: the grid does not depend on the strip count.
C11_StripCountInvariance ==
    render_out.done =>
        render_out.result.pixel_data
        = RenderAsync(1, render_in.viewport, RenderSettings(render_in)).pixel_data

C11_Witness ==
    /\ render_out.done
    /\ render_in.n = 4
    /\ render_in.height > 4
    /\ render_in.height % 4 # 0
    /\ render_in.viewport # DefaultViewPort
    /\ \E y1, y2 \in 1..render_in.height :
          render_out.result.pixel_data[y1] # render_out.result.pixel_data[y2]

\* C12: whatever the order in which the region tasks of a frame complete, the
\* populated result of that frame is the same grid, a function of the frame's
\* viewport and settings alone, and each region's matrix lies at that region's
\* own rows of it.
C12_CompletionOrderIrrelevant ==
    [][(GateReturned /\ gate_completion'.kind = "value") =>
          /\ gate_completion'.result
             = RenderAsync(THREAD_POOL_SIZE, frame.viewport, frame.settings)
          /\ \A i \in Tasks : \A py \in 1..Len(matrices[i]) :
                gate_completion'.result.pixel_data[frame.regions[i].start_row + py]
                = matrices[i][py]]_vars

\* the second region task has delivered its matrix while the first is still computing
C12_Witness ==
    /\ pc = "fanin"
    /\ task_state[1] = "running"
    /\ task_state[2] = "value"
    /\ matrices[2] # <<>>
    /\ matrices[2] # ComputePixelMatrixForRegion(frame.viewport, frame.settings,
                                                 frame.regions[1])

----------------------------------------------------------------------------
(* Frames and the region tasks *)

InFlight == {i \in Tasks : task_state[i] \in {"queued", "running"}}

\* C13: frames never overlap. While region tasks of a frame are in flight the
\* driving thread stays inside that frame's gate call: no event/zoom step and
\* no other gate call runs and AppState and the zoom clock are not written; and
\* an event/zoom step or a gate call starts only when no task of an earlier
\* frame is left.
C13_FramesNeverOverlap ==
    [][/\ InFlight # {} =>
             /\ pc = "fanin" /\ pc' = "fanin"
             /\ ~HandlerRan /\ ~GateCalled
             /\ appVars' = appVars
             /\ zoomVars' = zoomVars
       /\ (HandlerRan \/ GateCalled) =>
             /\ \A i \in Tasks : task_state[i] = "idle"
             /\ frame = NoFrame]_vars

\* a second frame's tasks are in flight while a held button and an elapsed
\* interval would let a zoom tick run
C13_Witness ==
    /\ pc = "fanin"
    /\ InFlight # {}
    /\ since_render # "never"
    /\ left_mouse_pressed
    /\ zoom_clock_ >= ZOOM_INTERVAL_MS

\* a step of a pool worker: a region task is taken off the queue or completes
TaskStep == pc = "fanin" /\ pc' = "fanin" /\ task_state' # task_state

\* C14: the region tasks work on the copies of viewport and settings taken
\* when the gate call started and leave AppState alone; AppState is written
\* only by the event/zoom step and by the gate on the driving thread; and the
\* viewport stamped on a populated RenderResult is AppState.viewport as it was
\* when the gate call started.
C14_TasksUseCopies ==
    [][/\ (GateCalled /\ need_rerender) =>
             /\ frame'.viewport = viewport
             /\ frame'.settings = FrameSettings
       /\ TaskStep =>
             /\ appVars' = appVars
             /\ frame' = frame
             /\ \A i \in Tasks :
                   matrices'[i] # matrices[i] =>
                       matrices'[i] = ComputePixelMatrixForRegion(frame.viewport,
                                                                  frame.settings,
                                                                  frame.regions[i])
       /\ appVars' # appVars => (HandlerRan \/ GateReturned)
       /\ pc = "fanin" => frame.viewport = viewport
       /\ (GateReturned /\ gate_completion'.kind = "value") =>
             /\ gate_completion'.result.viewport = frame.viewport
             /\ gate_completion'.result.viewport = viewport']_vars

\* a populated result stamped with a zoomed viewport
C14_Witness ==
    /\ pc = "present"
    /\ IsPopulated(gate_completion)
    /\ gate_completion.result.viewport # DefaultViewPort
    /\ gate_completion.result.viewport = viewport

----------------------------------------------------------------------------
(* The event/zoom step *)

\* C15: when should_exit is true at the end of the event/zoom step (a Closed
\* event in the batch, or should_exit set beforehand) the cycle ends as stopped
\* in that very step: the gate and the presentation do not run, so no task is
\* dispatched, nothing is delivered and the image is untouched; and once the
\* loop has stopped no further step of the pipeline occurs, so need_rerender
\* and the image stay as they are.
C15_ExitStopsLoop ==
    [][/\ pc # "done"
       /\ (HandlerRan /\ (should_exit \/ \E k \in 1..Len(last_events') :
                                            last_events'[k] = "Closed")) =>
             should_exit'
       /\ (HandlerRan /\ should_exit') =>
             /\ pc' = "done"
             /\ need_rerender => need_rerender'
             /\ image_' = image_
             /\ gate_completion' = gate_completion
             /\ fanVars' = fanVars]_vars

\* the loop has stopped with a render still requested and nothing presented
C15_Witness ==
    /\ pc = "done"
    /\ should_exit
    /\ need_rerender
    /\ image_ = BlankImage
    /\ since_render = "never"

----------------------------------------------------------------------------
(* The grid of a completed render and the matrix of one region *)

\* C16: after RenderAsync over N regions has succeeded, pixel_data and
\* color_data have height rows of width cells; every cell (r, c) is written by
\* exactly one region task, the one whose region holds row r; pixel_data[r][c]
\* is the escape-time count of the point pixel (c, r) maps to under the render's
\* viewport, and color_data[r][c] is the colour of that count, black when the
\* count is max_iterations.
C16_GridIsEscapeTimes ==
    render_out.done =>
        LET res == render_out.result
            vp == render_in.viewport
            settings == RenderSettings(render_in)
            regions == Partition(render_in.n, settings)
        IN  /\ res.viewport = vp
            /\ res.settings = settings
            /\ Len(res.pixel_data) = settings.height
            /\ Len(res.color_data) = settings.height
            /\ \A r \in 0..(settings.height - 1) :
                  /\ Len(res.pixel_data[r + 1]) = settings.width
                  /\ Len(res.color_data[r + 1]) = settings.width
                  /\ Cardinality(Writers(r, render_in.n, vp, settings)) = 1
                  /\ \A i \in Writers(r, render_in.n, vp, settings) :
                        regions[i].start_row <= r /\ r < regions[i].end_row
                  /\ \A c \in 0..(settings.width - 1) :
                        /\ res.pixel_data[r + 1][c + 1] = PixelIterations(c, r, vp, settings)
                        /\ res.color_data[r + 1][c + 1]
                           = IterationsToColor(res.pixel_data[r + 1][c + 1],
                                               settings.max_iterations)
                        /\ res.pixel_data[r + 1][c + 1] = settings.max_iterations =>
                              res.color_data[r + 1][c + 1] = Black

\* a render of at least three strips of unequal height with black and
\* coloured cells
C16_Witness ==
    /\ render_out.done
    /\ render_in.n >= 3
    /\ render_in.height > render_in.n
    /\ render_in.height % render_in.n # 0
    /\ \E y \in 1..render_in.height, x \in 1..render_in.width :
          render_out.result.color_data[y][x] = Black
    /\ \E y \in 1..render_in.height, x \in 1..render_in.width :
          /\ render_out.result.pixel_data[y][x] < 3
          /\ render_out.result.color_data[y][x] # Black

\* C17: for a region with start_row <= end_row, ComputePixelMatrixForRegion
\* returns min(end_row, height) - min(start_row, height) rows of exactly width
\* entries each, entry [i][c] being the escape-time count of pixel
\* (c, start_row + i); a region inside the frame gets end_row - start_row rows.
C17_RegionMatrixShape ==
    region_out.done =>
        LET mat == region_out.matrix
            settings == RenderSettings(region_in)
        IN  /\ Len(mat) = Min(region_in.end_row, settings.height)
                          - Min(region_in.start_row, settings.height)
            /\ region_in.end_row <= settings.height =>
                  Len(mat) = region_in.end_row - region_in.start_row
            /\ \A i \in 0..(Len(mat) - 1) :
                  /\ Len(mat[i + 1]) = settings.width
                  /\ \A c \in 0..(settings.width - 1) :
                        mat[i + 1][c + 1]
                        = PixelIterations(c, region_in.start_row + i, DefaultViewPort, settings)

\* a region that starts inside the frame and ends beyond it
C17_Witness ==
    /\ region_out.done
    /\ region_in.start_row > 0
    /\ region_in.start_row < region_in.height
    /\ region_in.end_row > region_in.height
    /\ Len(region_out.matrix) >= 2
    /\ region_out.matrix[1] # region_out.matrix[2]

----------------------------------------------------------------------------
(* Buttons *)

\* the last event of the batch that is one of the two given, or "none"
LastOf(events, press, release) ==
    LET ks == {k \in 1..Len(events) : events[k] \in {press, release}}
    IN  IF ks = {} THEN "none"
        ELSE events[CHOOSE k \in ks : \A j \in ks : j <= k]

\* C18: a press of the left or right button sets that button's held flag and
\* need_rerender within the event-handling step that reads it, before the gate
\* of that cycle runs; a release clears that button's held flag; and events of
\* one button leave the other button's flag as it was.
C18_PressAndRelease ==
    [][HandlerRan =>
          LET events == last_events'
          IN  /\ pc' \in {"gate", "done"}
              /\ (\E k \in 1..Len(events) : events[k] \in {"PressLeft", "PressRight"})
                    => need_rerender'
              /\ (\A k \in 1..Len(events) : events[k] \notin {"PressLeft", "PressRight"})
                    => need_rerender' = need_rerender
              /\ LastOf(events, "PressLeft", "ReleaseLeft") = "PressLeft"
                    => left_mouse_pressed'
              /\ LastOf(events, "PressLeft", "ReleaseLeft") = "ReleaseLeft"
                    => ~left_mouse_pressed'
              /\ LastOf(events, "PressLeft", "ReleaseLeft") = "none"
                    => left_mouse_pressed' = left_mouse_pressed
              /\ LastOf(events, "PressRight", "ReleaseRight") = "PressRight"
                    => right_mouse_pressed'
              /\ LastOf(events, "PressRight", "ReleaseRight") = "ReleaseRight"
                    => ~right_mouse_pressed'
              /\ LastOf(events, "PressRight", "ReleaseRight") = "none"
                    => right_mouse_pressed' = right_mouse_pressed]_vars

\* the left button was held long enough to zoom in and has been released
\* while the right button stays held
C18_Witness ==
    /\ pc = "gate"
    /\ \E k \in 1..Len(last_events) : last_events[k] = "ReleaseLeft"
    /\ right_mouse_pressed
    /\ ~left_mouse_pressed
    /\ RLess(VpWidth(viewport), VpWidth(DefaultViewPort))

----------------------------------------------------------------------------
(* The zoom step *)

\* the pointer lies beyond an edge of the frame
Outside(mouse_pos, settings) ==
    \/ mouse_pos[1] < 0
    \/ mouse_pos[1] >= settings.width
    \/ mouse_pos[2] < 0
    \/ mouse_pos[2] >= settings.height

\* C19: while a button is held and the pointer is outside the frame (x < 0,
\* x >= width, y < 0 or y >= height), the zoom step changes nothing: viewport
\* and zoom clock are as before the handler call, and both held flags and
\* need_rerender are as event handling left them.
C19_PointerOutsideNoZoom ==
    [][HandlerRan =>
          LET st == HandleEvents(Flags, last_events')
          IN  (/\ st.left_mouse_pressed \/ st.right_mouse_pressed
               /\ last_mouse' # NoMouse
               /\ Outside(last_mouse', FrameSettings)) =>
                  /\ viewport' = viewport
                  /\ zoom_clock_' = zoom_clock_
                  /\ zoom_steps' = zoom_steps
                  /\ left_mouse_pressed' = st.left_mouse_pressed
                  /\ right_mouse_pressed' = st.right_mouse_pressed
                  /\ need_rerender' = st.need_rerender]_vars

\* a handler call with a button held and the interval elapsed has gone by
\* without a zoom step: the pointer was outside the frame
C19_Witness ==
    /\ pc = "gate"
    /\ left_mouse_pressed \/ right_mouse_pressed
    /\ zoom_clock_ >= ZOOM_INTERVAL_MS
    /\ last_mouse # NoMouse
    /\ Outside(last_mouse, FrameSettings)
    /\ viewport # DefaultViewPort

\* C20: a zoom tick applies exactly one zoom step; with both buttons held it
\* is a zoom-in (factor 0.8) at the pointer; a zoom-out is applied only when
\* the right button is held and the left one is not.
C20_BothHeldZoomsIn ==
    last_tick.kind # "none" =>
        /\ left_mouse_pressed \/ right_mouse_pressed
        /\ viewport = ZoomToPoint(last_tick.before, last_tick.x, last_tick.y,
                                  left_mouse_pressed, FrameSettings)
        /\ (left_mouse_pressed /\ right_mouse_pressed) =>
              /\ last_tick.kind = "in"
              /\ viewport = ZoomToPoint(last_tick.before, last_tick.x, last_tick.y,
                                        TRUE, FrameSettings)
              /\ VpWidth(viewport) = RMul(<<4, 5>>, VpWidth(last_tick.before))
        /\ last_tick.kind = "out" <=> (right_mouse_pressed /\ ~left_mouse_pressed)
        /\ last_tick.kind = "out" =>
              VpWidth(viewport) = RMul(<<5, 4>>, VpWidth(last_tick.before))

\* a zoom tick with both buttons held
C20_Witness ==
    /\ last_tick.kind = "in"
    /\ left_mouse_pressed
    /\ right_mouse_pressed

\* C21: zoom steps are throttled. A handler call applies at most one zoom
\* step, and only when at least ZOOM_INTERVAL_MS have elapsed on the zoom
\* clock; the clock is restarted in exactly the calls that apply a step, so
\* two consecutive steps are at least ZOOM_INTERVAL_MS apart.
C21_ZoomThrottled ==
    [][/\ HandlerRan =>
             /\ zoom_steps' \in {zoom_steps, zoom_steps + 1}
             /\ zoom_steps' = zoom_steps + 1 <=> viewport' # viewport
             /\ viewport' # viewport =>
                   /\ zoom_clock_ >= ZOOM_INTERVAL_MS
                   /\ zoom_clock_' = 0
                   /\ viewport' = ZoomToPoint(viewport, last_mouse'[1], last_mouse'[2],
                                              left_mouse_pressed', FrameSettings)
             /\ viewport' = viewport => zoom_clock_' = zoom_clock_
       /\ ~HandlerRan =>
             /\ zoom_steps' = zoom_steps
             /\ zoom_clock_' >= zoom_clock_]_vars

\* a second zoom step, applied after the clock was restarted by the first
\* and ran up to the interval again
C21_Witness ==
    /\ pc = "gate"
    /\ last_tick.kind # "none"
    /\ last_tick.before # DefaultViewPort
    /\ zoom_clock_ = 0
    /\ zoom_steps = 2

----------------------------------------------------------------------------
(* The viewport *)

VpValid(vp) == RLess(vp.x_min, vp.x_max) /\ RLess(vp.y_min, vp.y_max)

----------------------------------------------------------------------------
(* Completion signals *)

Completed == {"value", "error", "stopped"}

\* C24: every started operation signals its receiver exactly once, with one
\* of value, error or stopped. No operation has signalled more than once; the
\* event handler has signalled once as soon as its start() has returned (value
\* when the cycle goes on to the gate, stopped when the loop ends); the gate has
\* not signalled while it waits for the fan-in and has signalled once, with a
\* value or an error, when its start() has returned; and a region task has
\* signalled once exactly when it has completed.
C24_ExactlyOneSignal ==
    /\ signals.handler <= 1
    /\ signals.gate <= 1
    /\ \A i \in Tasks : signals.task[i] <= 1
    /\ pc = "events" => signals.handler = 0
    /\ pc \in {"gate", "fanin", "present", "pace", "failed", "done"} => signals.handler = 1
    /\ pc \in {"events", "gate", "fanin", "done"} =>
          /\ signals.gate = 0
          /\ gate_completion.kind = "none"
    /\ pc \in {"present", "pace", "failed"} =>
          /\ signals.gate = 1
          /\ gate_completion.kind \in Completed
    /\ \A i \in Tasks :
          /\ task_state[i] \in Completed <=> signals.task[i] = 1
          /\ task_state[i] \in {"queued", "running"} => pc = "fanin"

\* the gate has signalled an error after one region task signalled a value
\* and the other an error
C24_Witness ==
    /\ pc = "failed"
    /\ signals.handler = 1
    /\ signals.gate = 1
    /\ gate_completion.kind = "error"
    /\ gate_completion.error.task = 2

----------------------------------------------------------------------------
(* The displayed frame *)

\* C25: the displayed frame does not stay stale: at the end of every cycle,
\* once a frame has been rendered, need_rerender false implies that the latest
\* populated RenderResult was computed for the current viewport.
C25_FrameNotStale ==
    (pc = "pace" /\ since_render # "never" /\ ~need_rerender) =>
        rendered_viewport = viewport

----------------------------------------------------------------------------
(* Termination of the gate *)

\* C23: every gate call that dispatched the region tasks (need_rerender true)
\* eventually completes, with a value or an error, for a pool of one worker
\* (fewer than the N tasks) as for a pool of N workers: the gate never waits
\* forever on the fan-in.
C23_GateTerminates ==
    (pc = "fanin") ~> (pc \in {"present", "failed"} /\ gate_completion.kind \in {"value", "error"})

\* a frame delivered by a pool with fewer workers than region tasks
C23_Witness ==
    /\ pc = "present"
    /\ IsPopulated(gate_completion)
    /\ num_threads >= 1
    /\ num_threads < THREAD_POOL_SIZE

====
